---- MODULE Spec2Model ----
(***************************************************************************)
(* Model of meta_ai_api's adaptive rate limiter (rate_limiter.py) and      *)
(* header rotator (header_rotator.py).                                     *)
(*                                                                         *)
(* Delays and clock readings are Python floats holding seconds.  They are  *)
(* modelled in fixed point, as integer milliseconds: 0.5 s is 500, the     *)
(* factor 1.3 is (d * 13) \div 10, 0.95 is (d * 95) \div 100 and 1.5 is    *)
(* (d * 3) \div 2, each rounded down to a whole millisecond.               *)
(*                                                                         *)
(* Strings that the code parses (header values) are sequences of           *)
(* one-character strings, so that int() is computed and not assumed.       *)
(***************************************************************************)
EXTENDS Integers, Sequences, FiniteSets, TLC

VARIABLES
    base_delay,             \* self.base_delay, in ms
    max_delay,              \* self.max_delay, in ms
    urls,                   \* the endpoint keys the callers use
    endpoint_delays,        \* self.endpoint_delays: defaultdict(lambda: base_delay)
    endpoint_failures,      \* self.endpoint_failures: defaultdict(int)
    endpoint_last_request,  \* self.endpoint_last_request: defaultdict(float)
    clock,                  \* the reading of time.time(), in ms
    outcome,                \* how the last call ended: "none", "returned" or "ValueError"
    logged,                 \* the log records the last call emitted, in order
    pc,                     \* per thread: the line it is about to run, or "idle"
    frame,                  \* per thread: the arguments and locals of its call
    completed,              \* the number of finished calls, per function name
    request_cache,          \* self.request_cache: hash -> (time, response)
    cache_lock,             \* self.cache_lock: "free" or the thread holding it
    today,                  \* the reading of datetime.now(), in seconds
    stored,                 \* per hash, the (time, response) of the latest update_cache
    request_count,          \* HeaderRotator.request_count
    last_ua,                \* HeaderRotator.last_ua: <<>> for None, <<ua>> otherwise
    ua_change_interval,     \* HeaderRotator.ua_change_interval
    base_headers,           \* the caller's dict passed to get_headers, after the call
    returned,               \* the value the last calculate_backoff / get_headers returned
    hashed,                 \* the latest get_request_hash calls: arguments and value
    call,                   \* the call of the rate_limited wrapper that is under way
    reports                 \* the number of calls callers have made to the limiter directly

thread_vars == <<pc, frame, completed>>
cache_vars == <<request_cache, cache_lock, today, stored>>
rotator_vars == <<request_count, last_ua, ua_change_interval, base_headers>>
\* what the limiter's state-changing methods do not touch beyond the limiter
client_vars == <<rotator_vars, returned, hashed>>
\* what the limiter's methods say nothing about: who calls them
caller_vars == <<call, reports>>

vars == <<base_delay, max_delay, urls, endpoint_delays, endpoint_failures,
          endpoint_last_request, clock, outcome, logged, thread_vars, cache_vars,
          client_vars, caller_vars>>

----------------------------------------------------------------------------
(* Bounds of the model *)

\* recordFailure is not called once the counter has reached this value
MaxFailures == 3
\* a delay is not pushed further below zero than this many ms
MaxDebt == 6000

----------------------------------------------------------------------------
(* Arithmetic and dictionaries *)

Min(a, b) == IF a <= b THEN a ELSE b
Max(a, b) == IF a >= b THEN a ELSE b

\* seconds to the fixed-point unit
Millis(s) == s * 1000

\* d[k] of a defaultdict whose factory yields dflt
DictGet(d, k, dflt) == IF k \in DOMAIN d THEN d[k] ELSE dflt
\* (mutant: one entry shared by all keys)
DictSet_AllKeys(d, k, v) == [x \in (DOMAIN d) \cup {k} |-> v]
\* d[k] = v
DictSet(d, k, v) == [x \in (DOMAIN d) \cup {k} |-> IF x = k THEN v ELSE d[x]]
\* the dictionary after a read of d[k]: a defaultdict stores the default it returns
DictTouch(d, k, dflt) == DictSet(d, k, DictGet(d, k, dflt))
EmptyDict == [x \in {} |-> 0]

----------------------------------------------------------------------------
(* int(str) *)

Digits == <<"0", "1", "2", "3", "4", "5", "6", "7", "8", "9">>
IsDigit(c) == \E i \in 1..10 : Digits[i] = c
DigitVal(c) == (CHOOSE i \in 1..10 : Digits[i] = c) - 1

RECURSIVE LStrip(_)
LStrip(s) == IF s # <<>> /\ Head(s) = " " THEN LStrip(Tail(s)) ELSE s
RECURSIVE RStrip(_)
RStrip(s) == IF s # <<>> /\ s[Len(s)] = " " THEN RStrip(SubSeq(s, 1, Len(s) - 1)) ELSE s

RECURSIVE DigitsValue(_, _)
DigitsValue(s, acc) ==
    IF s = <<>> THEN acc ELSE DigitsValue(Tail(s), acc * 10 + DigitVal(Head(s)))

AllDigits(s) == s # <<>> /\ \A i \in 1..Len(s) : IsDigit(s[i])

\* int(s) for a str s: surrounding blanks are dropped, one sign is allowed, the
\* rest must be decimal digits; anything else raises ValueError
ParseInt(s) ==
    LET t == RStrip(LStrip(s))
        signed == t # <<>> /\ Head(t) \in {"-", "+"}
        body == IF signed THEN Tail(t) ELSE t
    IN  IF AllDigits(body)
        THEN [ok |-> TRUE,
              val |-> IF signed /\ Head(t) = "-"
                      THEN 0 - DigitsValue(body, 0) ELSE DigitsValue(body, 0)]
        ELSE [ok |-> FALSE, val |-> 0]

----------------------------------------------------------------------------
(* Response headers *)

\* headers.get(name): <<>> for None, <<v>> for the value v
HeaderGet(headers, name) == IF name \in DOMAIN headers THEN <<headers[name]>> ELSE <<>>
\* the truth value of headers.get(name): None and "" are false
Truthy(opt) == opt # <<>> /\ opt[1] # <<>>

\* retry-after values the server may send: none, "", an HTTP date, numbers
RetryAfterValues ==
    { <<>>, <<"s", "o", "o", "n">>, <<"0">>, <<"1">>, <<"1", "2">>, <<"-", "3">> }
\* x-rate-limit-remaining values: "", a word, numbers below and not below 5
RemainingValues == { <<>>, <<"l", "o", "w">>, <<"4">>, <<" ", "5">> }

\* int(v) of every header value of the model, computed once
IntOf == [v \in RetryAfterValues \cup RemainingValues |-> ParseInt(v)]

MkHeaders(retry, remaining) ==
    [n \in (IF retry = <<>> THEN {} ELSE {"retry-after"})
           \cup (IF remaining = <<>> THEN {} ELSE {"x-rate-limit-remaining"})
       |-> IF n = "retry-after" THEN retry[1] ELSE remaining[1]]

\* the headers that carry the retry-after value v and the remaining-quota
\* header q (<<>> for none)
Directive(v, q) == MkHeaders(<<v>>, q)

\* the header mappings of the model: each header absent or with one of its values
HeaderInputs ==
    { MkHeaders(r, q) : r \in {<<>>} \cup { <<v>> : v \in RetryAfterValues },
                        q \in {<<>>} \cup { <<v>> : v \in RemainingValues } }

----------------------------------------------------------------------------
(* AdaptiveRateLimiter: construction *)

\* the default of __init__: base_delay = 0.5
DefaultBaseDelay == 500
\* cache_ttl = 300 seconds
CacheTtl == 300

\* the constructor argument of the model: max_delay = 2
NarrowMaxDelay == 2000

\* the (base_delay, max_delay) pairs the limiter is constructed with
Configs == { <<DefaultBaseDelay, NarrowMaxDelay>> }

\* currentDelay(k), consecutiveFailures(k), lastRequestTime(k) of the specification
CurrentDelay(k) == DictGet(endpoint_delays, k, base_delay)
Failures(k) == DictGet(endpoint_failures, k, 0)
LastRequest(k) == DictGet(endpoint_last_request, k, 0)

\* the model follows a delay down to -MaxDebt and no further
Tracked(delays) == \A k \in DOMAIN delays : delays[k] >= 0 - MaxDebt

----------------------------------------------------------------------------
(* AdaptiveRateLimiter: the delay policies *)

\* (mutant: the server's delay is stored without the cap)
RetryAfterDelay_Uncapped(secs, mx) == Millis(secs)
\* min(delay, self.max_delay) for delay = int(retry_after) seconds
RetryAfterDelay(secs, mx) == Min(Millis(secs), mx)

\* min(current_delay * 1.5, self.max_delay)
LowQuotaDelay(d, mx) == Min((d * 3) \div 2, mx)

\* (mutant: the grown delay is stored without the cap)
FailureDelay_Uncapped(d, mx) == (d * 13) \div 10
\* min(current_delay * 1.3, self.max_delay)
FailureDelay(d, mx) == Min((d * 13) \div 10, mx)

\* max(current_delay * 0.95, self.base_delay), taken only above base_delay
SuccessDelay(d, base) == IF d > base THEN Max((d * 95) \div 100, base) ELSE d

----------------------------------------------------------------------------
(* update_from_headers(url, headers) *)

\* logger.warning(f"Rate limited on {url}, delay set to {delay}s")
RateLimitedRecord(k, secs) == [msg |-> "Rate limited", url |-> k, value |-> secs]
\* logger.warning(f"Approaching rate limit on {url}, increased delay")
ApproachingRecord(k) == [msg |-> "Approaching rate limit", url |-> k, value |-> 0]
\* logger.warning(f"Failure #{failures} on {url}, delay increased to {new_delay:.2f}s")
FailureRecord(k, failures) == [msg |-> "Failure", url |-> k, value |-> failures]

\* the retry-after part: the delays and the log after it, and whether int() raised
RetryAfterStep(delays, k, headers, mx) ==
    LET retry == HeaderGet(headers, "retry-after")
    IN  IF ~Truthy(retry) THEN [delays |-> delays, log |-> <<>>, raised |-> FALSE]
        ELSE LET p == IntOf[retry[1]]
             IN  IF ~p.ok THEN [delays |-> delays, log |-> <<>>, raised |-> TRUE]
                 ELSE [delays |-> DictSet(delays, k, RetryAfterDelay(p.val, mx)),
                       log |-> <<RateLimitedRecord(k, p.val)>>,
                       raised |-> FALSE]

\* the remaining-quota part, from the delays and the log the first part left
RemainingStep(delays, log, k, headers, base, mx) ==
    LET remaining == HeaderGet(headers, "x-rate-limit-remaining")
    IN  IF ~Truthy(remaining) THEN [delays |-> delays, log |-> log, raised |-> FALSE]
        ELSE LET p == IntOf[remaining[1]]
             IN  IF ~p.ok THEN [delays |-> delays, log |-> log, raised |-> TRUE]
                 ELSE IF p.val < 5
                 THEN [delays |-> DictSet(delays, k,
                                    LowQuotaDelay(DictGet(delays, k, base), mx)),
                       log |-> Append(log, ApproachingRecord(k)),
                       raised |-> FALSE]
                 ELSE [delays |-> delays, log |-> log, raised |-> FALSE]

\* the whole call: an exception of the first part skips the second
HeadersResult(delays, k, headers, base, mx) ==
    LET first == RetryAfterStep(delays, k, headers, mx)
    IN  IF first.raised THEN first
        ELSE RemainingStep(first.delays, first.log, k, headers, base, mx)

UpdateFromHeaders(k, headers) ==
    LET r == HeadersResult(endpoint_delays, k, headers, base_delay, max_delay)
    IN  /\ endpoint_delays' = r.delays
        /\ Tracked(endpoint_delays')
        /\ outcome' = IF r.raised THEN "ValueError" ELSE "returned"
        /\ logged' = r.log
        /\ UNCHANGED <<base_delay, max_delay, urls, endpoint_failures,
                       endpoint_last_request, clock, thread_vars, cache_vars,
                   client_vars>>

----------------------------------------------------------------------------
(* record_failure(url), record_success(url) *)

RecordFailure(k) ==
    /\ Failures(k) < MaxFailures
    /\ LET failures == Failures(k) + 1
       IN  /\ endpoint_failures' = DictSet(endpoint_failures, k, failures)
           /\ endpoint_delays' =
                 IF failures >= 2
                 THEN DictSet(endpoint_delays, k, FailureDelay(CurrentDelay(k), max_delay))
                 ELSE endpoint_delays
           /\ logged' = IF failures >= 2 THEN <<FailureRecord(k, failures)>> ELSE <<>>
    /\ Tracked(endpoint_delays')
    /\ outcome' = "returned"
    /\ UNCHANGED <<base_delay, max_delay, urls, endpoint_last_request, clock,
                   thread_vars, cache_vars,
                   client_vars>>

RecordSuccess(k) ==
    /\ endpoint_failures' = DictSet(endpoint_failures, k, 0)
    /\ endpoint_delays' =
          DictSet(endpoint_delays, k, SuccessDelay(CurrentDelay(k), base_delay))
    /\ outcome' = "returned"
    /\ logged' = <<>>
    /\ UNCHANGED <<base_delay, max_delay, urls, endpoint_last_request, clock,
                   thread_vars, cache_vars,
                   client_vars>>

----------------------------------------------------------------------------
(* wait_for_endpoint(url) *)

\* the reading of time.time() when the limiter is constructed
Epoch == 100000

\* logger.debug(f"Waiting {wait_time:.2f}s before {url}")
WaitingRecord(k, ms) == [msg |-> "Waiting", url |-> k, value |-> ms]

\* (mutant: the caller is let through without the sleep)
SleepTime_Skipped(delay, time_since_last) == 0
\* the argument of time.sleep: delay - time_since_last when that is positive,
\* and no sleep (0) otherwise
SleepTime(delay, time_since_last) ==
    IF time_since_last < delay THEN delay - time_since_last ELSE 0

\* what the clock may gain, beyond the time slept, between the reading of line 95
\* and the reading of line 103
Lags == {0, 50}
\* the model stops the clock this long after Epoch
MaxElapsed == 2500

\* one caller runs the whole call; time.sleep(t) returns after t or more
WaitForEndpoint(k, lag) ==
    LET last_request == LastRequest(k)
        time_since_last == clock - last_request
        delay == CurrentDelay(k)
        wait_time == SleepTime(delay, time_since_last)
    IN  /\ clock' = clock + wait_time + lag
        /\ endpoint_last_request' = DictSet(endpoint_last_request, k, clock')
        /\ endpoint_delays' = DictTouch(endpoint_delays, k, base_delay)
        /\ logged' = IF time_since_last < delay
                     THEN <<WaitingRecord(k, wait_time)>> ELSE <<>>
        /\ outcome' = "returned"
        /\ UNCHANGED <<base_delay, max_delay, urls, endpoint_failures,
                       thread_vars, cache_vars,
                   client_vars>>

\* time passes between two calls
Elapse(ms) ==
    /\ clock' = clock + ms
    /\ UNCHANGED <<base_delay, max_delay, urls, endpoint_delays, endpoint_failures,
                   endpoint_last_request, outcome, logged, thread_vars, cache_vars,
                   client_vars>>

----------------------------------------------------------------------------
(* The limiter under one caller that reports outcomes and server headers *)

\* the threads of the model
Threads == {"t1", "t2", "t3"}
\* the locals of a thread that is in no call
NoFrame == [url |-> "", value |-> 0, failures |-> 0, current_delay |-> 0,
            request_hash |-> "", response |-> "", cached |-> <<>>, now |-> 0,
            result |-> <<>>, error |-> "",
            last_request |-> 0, time_since_last |-> 0, delay |-> 0, wake |-> 0]

\* no call of the wrapper is under way
NoCall == [stage |-> "none", url |-> "", func |-> <<>>, done |-> <<>>, caught |-> <<>>,
           ended |-> <<>>, n |-> 0]
\* the smallest value random.randint(3, 15) gives
MinInterval == 3

\* the limiter after __init__(base_delay, max_delay) and the rotator after
\* __init__() with random.randint(3, 15) = interval, before any call; keys are
\* the endpoint keys the callers will use
Built(base, mx, keys, interval) ==
    /\ base_delay = base
    /\ max_delay = mx
    /\ urls = keys
    /\ request_count = 0
    /\ last_ua = <<>>
    /\ ua_change_interval = interval
    /\ base_headers = <<>>
    /\ returned = <<>>
    /\ hashed = <<>>
    /\ call = NoCall
    /\ reports = 0
    /\ endpoint_delays = EmptyDict
    /\ endpoint_failures = EmptyDict
    /\ endpoint_last_request = EmptyDict
    /\ clock = Epoch
    /\ outcome = "none"
    /\ logged = <<>>
    /\ pc = [t \in Threads |-> "idle"]
    /\ frame = [t \in Threads |-> NoFrame]
    /\ completed = [f \in {"record_failure", "record_success", "wait_for_endpoint"} |-> 0]
    /\ request_cache = EmptyDict
    /\ cache_lock = "free"
    /\ today = 0
    /\ stored = EmptyDict

\* __init__(base_delay, max_delay), before any call, for callers of one endpoint
Constructed(base, mx) == Built(base, mx, {"e1"}, MinInterval)

Init == \E c \in Configs : Constructed(c[1], c[2])

\* no call goes through the rate_limited wrapper
Direct == UNCHANGED caller_vars

ReportFailure == \E k \in urls : RecordFailure(k) /\ Direct
ReportSuccess == \E k \in urls : RecordSuccess(k) /\ Direct
ReportHeaders ==
    \E k \in urls : \E headers \in HeaderInputs : UpdateFromHeaders(k, headers) /\ Direct

Next ==
    \/ ReportFailure
    \/ ReportSuccess
    \/ ReportHeaders

Spec == Init /\ [][Next]_vars

----------------------------------------------------------------------------
(* The admission gate under one caller: waits, pauses between calls, failures
   and server directives that move the delay *)

\* the pauses between two calls
Pauses == {100, 400}
\* the server directives of this specification: retry-after 0, 1 and 12 seconds
GateHeaders == { Directive(<<"0">>, <<>>), Directive(<<"1">>, <<>>),
                 Directive(<<"1", "2">>, <<>>) }

BeforeStop == clock' <= Epoch + MaxElapsed

GateWait ==
    \E k \in urls : \E lag \in Lags : WaitForEndpoint(k, lag) /\ BeforeStop /\ Direct
GatePause == \E ms \in Pauses : Elapse(ms) /\ BeforeStop /\ Direct
GateFailure == \E k \in urls : RecordFailure(k) /\ Direct
GateHeadersSeen ==
    \E k \in urls : \E headers \in GateHeaders : UpdateFromHeaders(k, headers) /\ Direct

NextWait ==
    \/ GateWait
    \/ GatePause
    \/ GateFailure
    \/ GateHeadersSeen

SpecWait == Init /\ [][NextWait]_vars

----------------------------------------------------------------------------
(* record_failure and record_success run by threads.  No lock guards the
   per-endpoint dictionaries: a thread may be preempted between any two reads
   or writes of them, so each read and each write is a step of its own. *)

\* this many calls are made in all
MaxCalls == 4
\* max_delay of the limiter the threads share: 0.8 s
ContendedMaxDelay == 800

limiter_frame == <<base_delay, max_delay, urls, endpoint_last_request, clock,
                   outcome, logged, cache_vars, client_vars, caller_vars>>

CallsMade ==
    completed["record_failure"] + completed["record_success"]
    + Cardinality({t \in Threads : pc[t] # "idle"})

Goto(t, label) == pc' = [pc EXCEPT ![t] = label]
SetLocal(t, name, v) == frame' = [frame EXCEPT ![t][name] = v]
\* the call of thread t returns
Return(t, function) ==
    /\ pc' = [pc EXCEPT ![t] = "idle"]
    /\ frame' = [frame EXCEPT ![t] = NoFrame]
    /\ completed' = [completed EXCEPT ![function] = @ + 1]

\* thread t calls record_failure(k)
CallRecordFailure(t, k) ==
    /\ pc[t] = "idle"
    /\ CallsMade < MaxCalls
    /\ Failures(k) < MaxFailures
    /\ Goto(t, "rf_load")
    /\ SetLocal(t, "url", k)
    /\ UNCHANGED <<endpoint_delays, endpoint_failures, completed, limiter_frame>>

\* line 107, self.endpoint_failures[url] += 1: the read
RfLoad(t) ==
    /\ pc[t] = "rf_load"
    /\ SetLocal(t, "value", Failures(frame[t].url))
    /\ endpoint_failures' = DictTouch(endpoint_failures, frame[t].url, 0)
    /\ Goto(t, "rf_store")
    /\ UNCHANGED <<endpoint_delays, completed, limiter_frame>>

\* line 107, self.endpoint_failures[url] += 1: the write
RfStore(t) ==
    /\ pc[t] = "rf_store"
    /\ endpoint_failures' = DictSet(endpoint_failures, frame[t].url, frame[t].value + 1)
    /\ Goto(t, "rf_read")
    /\ UNCHANGED <<endpoint_delays, frame, completed, limiter_frame>>

\* lines 108-110: failures = self.endpoint_failures[url]; if failures >= 2
RfRead(t) ==
    /\ pc[t] = "rf_read"
    /\ LET failures == Failures(frame[t].url)
       IN  IF failures >= 2
           THEN /\ SetLocal(t, "failures", failures)
                /\ Goto(t, "rf_delay")
                /\ UNCHANGED completed
           ELSE Return(t, "record_failure")
    /\ UNCHANGED <<endpoint_delays, endpoint_failures, limiter_frame>>

\* line 111: current_delay = self.endpoint_delays[url]
RfDelay(t) ==
    /\ pc[t] = "rf_delay"
    /\ SetLocal(t, "current_delay", CurrentDelay(frame[t].url))
    /\ endpoint_delays' = DictTouch(endpoint_delays, frame[t].url, base_delay)
    /\ Goto(t, "rf_write")
    /\ UNCHANGED <<endpoint_failures, completed, limiter_frame>>

\* lines 112-113: self.endpoint_delays[url] = min(current_delay * 1.3, max_delay)
RfWrite(t) ==
    /\ pc[t] = "rf_write"
    /\ endpoint_delays' = DictSet(endpoint_delays, frame[t].url,
                                  FailureDelay(frame[t].current_delay, max_delay))
    /\ Return(t, "record_failure")
    /\ UNCHANGED <<endpoint_failures, limiter_frame>>

\* thread t calls record_success(k)
CallRecordSuccess(t, k) ==
    /\ pc[t] = "idle"
    /\ CallsMade < MaxCalls
    /\ Goto(t, "rs_reset")
    /\ SetLocal(t, "url", k)
    /\ UNCHANGED <<endpoint_delays, endpoint_failures, completed, limiter_frame>>

\* line 118: self.endpoint_failures[url] = 0
RsReset(t) ==
    /\ pc[t] = "rs_reset"
    /\ endpoint_failures' = DictSet(endpoint_failures, frame[t].url, 0)
    /\ Goto(t, "rs_read")
    /\ UNCHANGED <<endpoint_delays, frame, completed, limiter_frame>>

\* lines 119-122: current_delay = self.endpoint_delays[url]; if current_delay > base_delay
RsRead(t) ==
    /\ pc[t] = "rs_read"
    /\ endpoint_delays' = DictTouch(endpoint_delays, frame[t].url, base_delay)
    /\ LET current_delay == CurrentDelay(frame[t].url)
       IN  IF current_delay > base_delay
           THEN /\ SetLocal(t, "current_delay", current_delay)
                /\ Goto(t, "rs_write")
                /\ UNCHANGED completed
           ELSE Return(t, "record_success")
    /\ UNCHANGED <<endpoint_failures, limiter_frame>>

\* lines 123-124: self.endpoint_delays[url] = max(current_delay * 0.95, base_delay)
RsWrite(t) ==
    /\ pc[t] = "rs_write"
    /\ endpoint_delays' = DictSet(endpoint_delays, frame[t].url,
                                  SuccessDelay(frame[t].current_delay, base_delay))
    /\ Return(t, "record_success")
    /\ UNCHANGED <<endpoint_failures, limiter_frame>>

StartFailure == \E t \in Threads : \E k \in urls : CallRecordFailure(t, k)
FailureLoad == \E t \in Threads : RfLoad(t)
FailureStore == \E t \in Threads : RfStore(t)
FailureRead == \E t \in Threads : RfRead(t)
FailureDelayRead == \E t \in Threads : RfDelay(t)
FailureDelayWrite == \E t \in Threads : RfWrite(t)
StartSuccess == \E t \in Threads : \E k \in urls : CallRecordSuccess(t, k)
SuccessReset == \E t \in Threads : RsReset(t)
SuccessRead == \E t \in Threads : RsRead(t)
SuccessWrite == \E t \in Threads : RsWrite(t)

InitConc == Constructed(DefaultBaseDelay, ContendedMaxDelay)

NextConc ==
    \/ StartFailure
    \/ FailureLoad
    \/ FailureStore
    \/ FailureRead
    \/ FailureDelayRead
    \/ FailureDelayWrite
    \/ StartSuccess
    \/ SuccessReset
    \/ SuccessRead
    \/ SuccessWrite

SpecConc == InitConc /\ [][NextConc]_vars

----------------------------------------------------------------------------
(* check_cache and update_cache run by threads.  Both bodies are `with
   self.cache_lock:` blocks: the lock is taken on entry and released when the
   block is left, by return or by exception.  Each line inside is a step. *)

\* the request hashes callers pass: one str, and a value that cannot be hashed
\* (a list), on which the dictionary operations raise TypeError
Unhashable == "[]"
Hashes == {"h1", Unhashable}
Responses == {"r1", "r2"}
\* datetime.now() moves on by this many seconds at a time
CacheTick == 100
\* the model stops datetime.now() at this reading
MaxToday == 500

endpoint_frame == <<base_delay, max_delay, urls, endpoint_delays, endpoint_failures,
                    endpoint_last_request, clock, outcome, logged, completed,
                    client_vars, caller_vars>>

\* (mutant: the block is entered without waiting for the lock)
CanAcquire_Unlocked(lock) == TRUE
\* Lock.acquire() returns once the lock is free
CanAcquire(lock) == lock = "free"

\* (mutant: an entry aged exactly cache_ttl still counts as recent)
Recent_Inclusive(now, cached_time) == now - cached_time <= CacheTtl
\* datetime.now() - cached_time < timedelta(seconds=self.cache_ttl)
Recent(now, cached_time) == now - cached_time < CacheTtl

SetLocals(t, changes) ==
    frame' = [frame EXCEPT ![t] = [n \in DOMAIN @ |->
                 IF n \in DOMAIN changes THEN changes[n] ELSE @[n]]]
\* the with block is left: by return, or by the exception named
LeaveBlock(t, label, error) ==
    /\ pc' = [pc EXCEPT ![t] = label]
    /\ frame' = [frame EXCEPT ![t].error = error]

\* thread t calls check_cache(h)
CallCheckCache(t, h) ==
    /\ pc[t] = "idle"
    /\ Goto(t, "cc_acquire")
    /\ SetLocal(t, "request_hash", h)
    /\ UNCHANGED <<cache_vars, endpoint_frame>>

\* line 49: with self.cache_lock
CcAcquire(t) ==
    /\ pc[t] = "cc_acquire"
    /\ CanAcquire(cache_lock)
    /\ cache_lock' = t
    /\ Goto(t, "cc_contains")
    /\ UNCHANGED <<frame, request_cache, today, stored, endpoint_frame>>

\* line 50: if request_hash in self.request_cache
CcContains(t) ==
    /\ pc[t] = "cc_contains"
    /\ IF frame[t].request_hash = Unhashable
       THEN LeaveBlock(t, "cc_exit", "TypeError")
       ELSE IF frame[t].request_hash \in DOMAIN request_cache
       THEN Goto(t, "cc_entry") /\ UNCHANGED frame
       ELSE Goto(t, "cc_exit") /\ SetLocal(t, "result", <<>>)
    /\ UNCHANGED <<cache_vars, endpoint_frame>>

\* line 51: cached_time, cached_response = self.request_cache[request_hash]
CcEntry(t) ==
    /\ pc[t] = "cc_entry"
    /\ IF frame[t].request_hash \in DOMAIN request_cache
       THEN Goto(t, "cc_expiry")
            /\ SetLocal(t, "cached", request_cache[frame[t].request_hash])
       ELSE LeaveBlock(t, "cc_exit", "KeyError")
    /\ UNCHANGED <<cache_vars, endpoint_frame>>

\* lines 52-54: the comparison with datetime.now(), and the return of a hit
CcExpiry(t) ==
    /\ pc[t] = "cc_expiry"
    /\ IF Recent(today, frame[t].cached[1])
       THEN Goto(t, "cc_exit")
            /\ SetLocals(t, [now |-> today, result |-> <<frame[t].cached[2]>>])
       ELSE Goto(t, "cc_delete") /\ SetLocal(t, "now", today)
    /\ UNCHANGED <<cache_vars, endpoint_frame>>

\* lines 56-57: del self.request_cache[request_hash]; return None
CcDelete(t) ==
    /\ pc[t] = "cc_delete"
    /\ IF frame[t].request_hash \in DOMAIN request_cache
       THEN /\ request_cache' = [h \in DOMAIN request_cache \ {frame[t].request_hash}
                                   |-> request_cache[h]]
            /\ Goto(t, "cc_exit")
            /\ SetLocal(t, "result", <<>>)
       ELSE LeaveBlock(t, "cc_exit", "KeyError") /\ UNCHANGED request_cache
    /\ UNCHANGED <<cache_lock, today, stored, endpoint_frame>>

\* the end of the with block: the lock is released and the call is over
CcExit(t) ==
    /\ pc[t] = "cc_exit"
    /\ cache_lock' = "free"
    /\ pc' = [pc EXCEPT ![t] = "idle"]
    /\ frame' = [frame EXCEPT ![t] = NoFrame]
    /\ UNCHANGED <<request_cache, today, stored, endpoint_frame>>

\* thread t calls update_cache(h, r)
CallUpdateCache(t, h, r) ==
    /\ pc[t] = "idle"
    /\ Goto(t, "uc_acquire")
    /\ SetLocals(t, [request_hash |-> h, response |-> r])
    /\ UNCHANGED <<cache_vars, endpoint_frame>>

\* line 61: with self.cache_lock
UcAcquire(t) ==
    /\ pc[t] = "uc_acquire"
    /\ CanAcquire(cache_lock)
    /\ cache_lock' = t
    /\ Goto(t, "uc_store")
    /\ UNCHANGED <<frame, request_cache, today, stored, endpoint_frame>>

\* line 62: self.request_cache[request_hash] = (datetime.now(), response)
UcStore(t) ==
    /\ pc[t] = "uc_store"
    /\ IF frame[t].request_hash = Unhashable
       THEN LeaveBlock(t, "uc_exit", "TypeError") /\ UNCHANGED <<request_cache, stored>>
       ELSE /\ request_cache' = DictSet(request_cache, frame[t].request_hash,
                                        <<today, frame[t].response>>)
            /\ stored' = DictSet(stored, frame[t].request_hash,
                                 <<today, frame[t].response>>)
            /\ Goto(t, "uc_exit")
            /\ UNCHANGED frame
    /\ UNCHANGED <<cache_lock, today, endpoint_frame>>

\* the end of the with block
UcExit(t) ==
    /\ pc[t] = "uc_exit"
    /\ cache_lock' = "free"
    /\ pc' = [pc EXCEPT ![t] = "idle"]
    /\ frame' = [frame EXCEPT ![t] = NoFrame]
    /\ UNCHANGED <<request_cache, today, stored, endpoint_frame>>

\* datetime.now() moves on
DayTick ==
    /\ today + CacheTick <= MaxToday
    /\ today' = today + CacheTick
    /\ UNCHANGED <<request_cache, cache_lock, stored, pc, frame, endpoint_frame>>

StartLookup == \E t \in Threads : \E h \in Hashes : CallCheckCache(t, h)
LookupAcquire == \E t \in Threads : CcAcquire(t)
LookupContains == \E t \in Threads : CcContains(t)
LookupEntry == \E t \in Threads : CcEntry(t)
LookupExpiry == \E t \in Threads : CcExpiry(t)
LookupDelete == \E t \in Threads : CcDelete(t)
LookupExit == \E t \in Threads : CcExit(t)
StartStore == \E t \in Threads : \E h \in Hashes : \E r \in Responses : CallUpdateCache(t, h, r)
StoreAcquire == \E t \in Threads : UcAcquire(t)
StoreWrite == \E t \in Threads : UcStore(t)
StoreExit == \E t \in Threads : UcExit(t)

NextCache ==
    \/ StartLookup
    \/ LookupAcquire
    \/ LookupContains
    \/ LookupEntry
    \/ LookupExpiry
    \/ LookupDelete
    \/ LookupExit
    \/ StartStore
    \/ StoreAcquire
    \/ StoreWrite
    \/ StoreExit
    \/ DayTick

SpecCache == Init /\ [][NextCache]_vars

----------------------------------------------------------------------------
(* calculate_backoff(url, attempt) *)

\* jitter_factor: float = 0.1, in thousandths
DefaultJitterFactor == 100

RECURSIVE Pow2(_)
Pow2(n) == IF n <= 0 THEN 1 ELSE 2 * Pow2(n - 1)

\* n / d rounded towards zero
Quotient(n, d) == IF n >= 0 THEN n \div d ELSE 0 - ((0 - n) \div d)

\* base * (2 ** min(attempt, 5))
Exponential(base, attempt) == base * Pow2(Min(attempt, 5))
\* time.time() % 1, in ms
Fraction(time) == time % 1000
\* exponential * self.jitter_factor * (2 * (time.time() % 1) - 1)
Jitter(exponential, time) ==
    Quotient(Quotient(exponential * (2 * Fraction(time) - 1000), 1000)
                 * DefaultJitterFactor, 1000)
\* min(exponential + jitter, self.max_delay)
Backoff(base, attempt, time, mx) ==
    Min(Exponential(base, attempt) + Jitter(Exponential(base, attempt), time), mx)

\* the attempt numbers callers pass
Attempts == {0, 1, 5, 6}

CalculateBackoff(k, attempt) ==
    /\ returned' = <<Backoff(CurrentDelay(k), attempt, clock, max_delay)>>
    /\ endpoint_delays' = DictTouch(endpoint_delays, k, base_delay)
    /\ outcome' = "returned"
    /\ logged' = <<>>
    /\ UNCHANGED <<base_delay, max_delay, urls, endpoint_failures,
                   endpoint_last_request, clock, thread_vars, cache_vars,
                   rotator_vars, hashed>>

----------------------------------------------------------------------------
(* wait_for_endpoint run by threads, on two endpoints.  No lock guards the
   dictionaries, and time.sleep blocks the calling thread only. *)

\* this many calls of wait_for_endpoint are made in all
MaxWaits == 3
\* this many other calls are made in all
MaxReports == 1
\* the clock moves on by this much at a time
Tick == 1000

wait_frame == <<base_delay, max_delay, urls, endpoint_failures, clock, outcome,
                logged, cache_vars, client_vars, caller_vars>>

WaitsMade ==
    completed["wait_for_endpoint"] + Cardinality({t \in Threads : pc[t] # "idle"})

\* thread t calls wait_for_endpoint(k)
CallWait(t, k) ==
    /\ pc[t] = "idle"
    /\ WaitsMade < MaxWaits
    /\ Goto(t, "wf_last")
    /\ SetLocal(t, "url", k)
    /\ UNCHANGED <<endpoint_delays, endpoint_last_request, completed, wait_frame>>

\* line 94: last_request = self.endpoint_last_request[url]
WfLast(t) ==
    /\ pc[t] = "wf_last"
    /\ SetLocal(t, "last_request", LastRequest(frame[t].url))
    /\ endpoint_last_request' = DictTouch(endpoint_last_request, frame[t].url, 0)
    /\ Goto(t, "wf_now")
    /\ UNCHANGED <<endpoint_delays, completed, wait_frame>>

\* line 95: time_since_last = time.time() - last_request
WfNow(t) ==
    /\ pc[t] = "wf_now"
    /\ SetLocal(t, "time_since_last", clock - frame[t].last_request)
    /\ Goto(t, "wf_delay")
    /\ UNCHANGED <<endpoint_delays, endpoint_last_request, completed, wait_frame>>

\* line 96: delay = self.endpoint_delays[url]
WfDelay(t) ==
    /\ pc[t] = "wf_delay"
    /\ SetLocal(t, "delay", CurrentDelay(frame[t].url))
    /\ endpoint_delays' = DictTouch(endpoint_delays, frame[t].url, base_delay)
    /\ Goto(t, "wf_check")
    /\ UNCHANGED <<endpoint_last_request, completed, wait_frame>>

\* lines 98-101: if time_since_last < delay, time.sleep(delay - time_since_last)
\* is entered; the thread is due to wake wait_time from now
WfCheck(t) ==
    /\ pc[t] = "wf_check"
    /\ IF frame[t].time_since_last < frame[t].delay
       THEN /\ SetLocal(t, "wake",
                        clock + SleepTime(frame[t].delay, frame[t].time_since_last))
            /\ Goto(t, "wf_sleep")
       ELSE Goto(t, "wf_stamp") /\ UNCHANGED frame
    /\ UNCHANGED <<endpoint_delays, endpoint_last_request, completed, wait_frame>>

\* line 101: time.sleep returns once the time asked for has passed
WfSleep(t) ==
    /\ pc[t] = "wf_sleep"
    /\ clock >= frame[t].wake
    /\ Goto(t, "wf_stamp")
    /\ UNCHANGED <<frame, endpoint_delays, endpoint_last_request, completed, wait_frame>>

\* line 103: self.endpoint_last_request[url] = time.time()
WfStamp(t) ==
    /\ pc[t] = "wf_stamp"
    /\ endpoint_last_request' = DictSet(endpoint_last_request, frame[t].url, clock)
    /\ Return(t, "wait_for_endpoint")
    /\ UNCHANGED <<endpoint_delays, wait_frame>>

\* the step of wait_for_endpoint that thread t is at
WaitStep(t) ==
    WfLast(t) \/ WfNow(t) \/ WfDelay(t) \/ WfCheck(t) \/ WfSleep(t) \/ WfStamp(t)

\* the server directives of this specification: retry-after 1 and -3 seconds
KeyHeaders == { Directive(<<"1">>, <<>>), Directive(<<"-", "3">>, <<>>) }

\* the threads that call wait_for_endpoint
Waiters == {"t1", "t2"}
\* the attempt numbers of the calculate_backoff calls made between the waits
KeyAttempts == {0, 6}

StartWait == \E t \in Waiters : \E k \in urls : CallWait(t, k)
WaitLast == \E t \in Threads : WfLast(t)
WaitNow == \E t \in Threads : WfNow(t)
WaitDelay == \E t \in Threads : WfDelay(t)
WaitCheck == \E t \in Threads : WfCheck(t)
WaitSleep == \E t \in Threads : WfSleep(t)
WaitStamp == \E t \in Threads : WfStamp(t)
\* a caller makes one more call, outside the wrapper
Counted == reports < MaxReports /\ reports' = reports + 1 /\ UNCHANGED call

ClockTick == Elapse(Tick) /\ BeforeStop /\ Direct
KeyFailure == \E k \in urls : RecordFailure(k) /\ Counted
KeySuccess == \E k \in urls : RecordSuccess(k) /\ Counted
KeyHeadersSeen ==
    \E k \in urls : \E headers \in KeyHeaders : UpdateFromHeaders(k, headers) /\ Counted
KeyBackoff ==
    \E k \in urls : \E attempt \in KeyAttempts : CalculateBackoff(k, attempt) /\ Counted

InitKeys == Built(DefaultBaseDelay, NarrowMaxDelay, {"e1", "e2"}, MinInterval)

NextKeys ==
    \/ StartWait
    \/ WaitLast
    \/ WaitNow
    \/ WaitDelay
    \/ WaitCheck
    \/ WaitSleep
    \/ WaitStamp
    \/ ClockTick
    \/ KeyFailure
    \/ KeySuccess
    \/ KeyHeadersSeen
    \/ KeyBackoff

SpecKeys == InitKeys /\ [][NextKeys]_vars

\* the admission gate of one endpoint under concurrent callers; nothing changes
\* the delay
NextGate ==
    \/ StartWait
    \/ WaitLast
    \/ WaitNow
    \/ WaitDelay
    \/ WaitCheck
    \/ WaitSleep
    \/ WaitStamp
    \/ ClockTick

SpecGate == Init /\ [][NextGate]_vars

----------------------------------------------------------------------------
(* calculate_backoff under one caller, between failures, server directives and
   pauses *)

\* the server directives of this specification: retry-after 1 and -3 seconds,
\* and a low remaining quota
BackoffDirectives ==
    { Directive(<<"1">>, <<>>), Directive(<<"-", "3">>, <<>>), Directive(<<"0">>, << <<"4">> >>) }
\* the pauses between two calls: the clock's fraction of a second moves
BackoffPauses == {250, 400}

BackoffQuery ==
    \E k \in urls : \E attempt \in Attempts : CalculateBackoff(k, attempt) /\ Direct
BackoffFailure == \E k \in urls : RecordFailure(k) /\ Direct
BackoffHeadersSeen ==
    \E k \in urls : \E headers \in BackoffDirectives :
        UpdateFromHeaders(k, headers) /\ Direct
BackoffPause == \E ms \in BackoffPauses : Elapse(ms) /\ BeforeStop /\ Direct

NextBackoff ==
    \/ BackoffQuery
    \/ BackoffFailure
    \/ BackoffHeadersSeen
    \/ BackoffPause

SpecBackoff == Init /\ [][NextBackoff]_vars

----------------------------------------------------------------------------
(* HeaderRotator.  A user-agent is a sequence of one-character strings, so that
   the `in` tests on it are computed; the other header values are strings. *)

\* USER_AGENTS, lines 16-34
USER_AGENTS ==
    <<
      <<"M", "o", "z", "i", "l", "l", "a", "/", "5", ".", "0", " ", "(", "W",
        "i", "n", "d", "o", "w", "s", " ", "N", "T", " ", "1", "0", ".", "0",
        ";", " ", "W", "i", "n", "6", "4", ";", " ", "x", "6", "4", ")", " ",
        "A", "p", "p", "l", "e", "W", "e", "b", "K", "i", "t", "/", "5", "3",
        "7", ".", "3", "6", " ", "(", "K", "H", "T", "M", "L", ",", " ", "l",
        "i", "k", "e", " ", "G", "e", "c", "k", "o", ")", " ", "C", "h", "r",
        "o", "m", "e", "/", "1", "2", "2", ".", "0", ".", "0", ".", "0", " ",
        "S", "a", "f", "a", "r", "i", "/", "5", "3", "7", ".", "3", "6">>,
      <<"M", "o", "z", "i", "l", "l", "a", "/", "5", ".", "0", " ", "(", "M",
        "a", "c", "i", "n", "t", "o", "s", "h", ";", " ", "I", "n", "t", "e",
        "l", " ", "M", "a", "c", " ", "O", "S", " ", "X", " ", "1", "0", "_",
        "1", "5", "_", "7", ")", " ", "A", "p", "p", "l", "e", "W", "e", "b",
        "K", "i", "t", "/", "5", "3", "7", ".", "3", "6", " ", "(", "K", "H",
        "T", "M", "L", ",", " ", "l", "i", "k", "e", " ", "G", "e", "c", "k",
        "o", ")", " ", "C", "h", "r", "o", "m", "e", "/", "1", "2", "1", ".",
        "0", ".", "0", ".", "0", " ", "S", "a", "f", "a", "r", "i", "/", "5",
        "3", "7", ".", "3", "6">>,
      <<"M", "o", "z", "i", "l", "l", "a", "/", "5", ".", "0", " ", "(", "X",
        "1", "1", ";", " ", "L", "i", "n", "u", "x", " ", "x", "8", "6", "_",
        "6", "4", ")", " ", "A", "p", "p", "l", "e", "W", "e", "b", "K", "i",
        "t", "/", "5", "3", "7", ".", "3", "6", " ", "(", "K", "H", "T", "M",
        "L", ",", " ", "l", "i", "k", "e", " ", "G", "e", "c", "k", "o", ")",
        " ", "C", "h", "r", "o", "m", "e", "/", "1", "2", "0", ".", "0", ".",
        "0", ".", "0", " ", "S", "a", "f", "a", "r", "i", "/", "5", "3", "7",
        ".", "3", "6">>,
      <<"M", "o", "z", "i", "l", "l", "a", "/", "5", ".", "0", " ", "(", "W",
        "i", "n", "d", "o", "w", "s", " ", "N", "T", " ", "1", "0", ".", "0",
        ";", " ", "W", "i", "n", "6", "4", ";", " ", "x", "6", "4", ")", " ",
        "A", "p", "p", "l", "e", "W", "e", "b", "K", "i", "t", "/", "5", "3",
        "7", ".", "3", "6", " ", "(", "K", "H", "T", "M", "L", ",", " ", "l",
        "i", "k", "e", " ", "G", "e", "c", "k", "o", ")", " ", "C", "h", "r",
        "o", "m", "e", "/", "1", "1", "9", ".", "0", ".", "0", ".", "0", " ",
        "S", "a", "f", "a", "r", "i", "/", "5", "3", "7", ".", "3", "6">>,
      <<"M", "o", "z", "i", "l", "l", "a", "/", "5", ".", "0", " ", "(", "W",
        "i", "n", "d", "o", "w", "s", " ", "N", "T", " ", "1", "0", ".", "0",
        ";", " ", "W", "i", "n", "6", "4", ";", " ", "x", "6", "4", ";", " ",
        "r", "v", ":", "1", "2", "1", ".", "0", ")", " ", "G", "e", "c", "k",
        "o", "/", "2", "0", "1", "0", "0", "1", "0", "1", " ", "F", "i", "r",
        "e", "f", "o", "x", "/", "1", "2", "1", ".", "0">>,
      <<"M", "o", "z", "i", "l", "l", "a", "/", "5", ".", "0", " ", "(", "M",
        "a", "c", "i", "n", "t", "o", "s", "h", ";", " ", "I", "n", "t", "e",
        "l", " ", "M", "a", "c", " ", "O", "S", " ", "X", " ", "1", "0", ".",
        "1", "5", ";", " ", "r", "v", ":", "1", "2", "0", ".", "0", ")", " ",
        "G", "e", "c", "k", "o", "/", "2", "0", "1", "0", "0", "1", "0", "1",
        " ", "F", "i", "r", "e", "f", "o", "x", "/", "1", "2", "0", ".", "0">>,
      <<"M", "o", "z", "i", "l", "l", "a", "/", "5", ".", "0", " ", "(", "X",
        "1", "1", ";", " ", "L", "i", "n", "u", "x", " ", "x", "8", "6", "_",
        "6", "4", ";", " ", "r", "v", ":", "1", "1", "9", ".", "0", ")", " ",
        "G", "e", "c", "k", "o", "/", "2", "0", "1", "0", "0", "1", "0", "1",
        " ", "F", "i", "r", "e", "f", "o", "x", "/", "1", "1", "9", ".", "0">>,
      <<"M", "o", "z", "i", "l", "l", "a", "/", "5", ".", "0", " ", "(", "M",
        "a", "c", "i", "n", "t", "o", "s", "h", ";", " ", "I", "n", "t", "e",
        "l", " ", "M", "a", "c", " ", "O", "S", " ", "X", " ", "1", "0", "_",
        "1", "5", "_", "7", ")", " ", "A", "p", "p", "l", "e", "W", "e", "b",
        "K", "i", "t", "/", "6", "0", "5", ".", "1", ".", "1", "5", " ", "(",
        "K", "H", "T", "M", "L", ",", " ", "l", "i", "k", "e", " ", "G", "e",
        "c", "k", "o", ")", " ", "V", "e", "r", "s", "i", "o", "n", "/", "1",
        "7", ".", "1", " ", "S", "a", "f", "a", "r", "i", "/", "6", "0", "5",
        ".", "1", ".", "1", "5">>,
      <<"M", "o", "z", "i", "l", "l", "a", "/", "5", ".", "0", " ", "(", "i",
        "P", "h", "o", "n", "e", ";", " ", "C", "P", "U", " ", "i", "P", "h",
        "o", "n", "e", " ", "O", "S", " ", "1", "7", "_", "2", " ", "l", "i",
        "k", "e", " ", "M", "a", "c", " ", "O", "S", " ", "X", ")", " ", "A",
        "p", "p", "l", "e", "W", "e", "b", "K", "i", "t", "/", "6", "0", "5",
        ".", "1", ".", "1", "5", " ", "(", "K", "H", "T", "M", "L", ",", " ",
        "l", "i", "k", "e", " ", "G", "e", "c", "k", "o", ")", " ", "V", "e",
        "r", "s", "i", "o", "n", "/", "1", "7", ".", "2", " ", "M", "o", "b",
        "i", "l", "e", "/", "1", "5", "E", "1", "4", "8", " ", "S", "a", "f",
        "a", "r", "i", "/", "6", "0", "4", ".", "1">>,
      <<"M", "o", "z", "i", "l", "l", "a", "/", "5", ".", "0", " ", "(", "W",
        "i", "n", "d", "o", "w", "s", " ", "N", "T", " ", "1", "0", ".", "0",
        ";", " ", "W", "i", "n", "6", "4", ";", " ", "x", "6", "4", ")", " ",
        "A", "p", "p", "l", "e", "W", "e", "b", "K", "i", "t", "/", "5", "3",
        "7", ".", "3", "6", " ", "(", "K", "H", "T", "M", "L", ",", " ", "l",
        "i", "k", "e", " ", "G", "e", "c", "k", "o", ")", " ", "C", "h", "r",
        "o", "m", "e", "/", "1", "2", "2", ".", "0", ".", "0", ".", "0", " ",
        "S", "a", "f", "a", "r", "i", "/", "5", "3", "7", ".", "3", "6", " ",
        "E", "d", "g", "/", "1", "2", "2", ".", "0", ".", "0", ".", "0">>
    >>

\* the markers looked for in a user-agent
WindowsMarker == <<"W", "i", "n", "d", "o", "w", "s">>
MacintoshMarker == <<"M", "a", "c", "i", "n", "t", "o", "s", "h">>
IPhoneMarker == <<"i", "P", "h", "o", "n", "e">>
IPadMarker == <<"i", "P", "a", "d">>
ChromeMarker == <<"C", "h", "r", "o", "m", "e">>
EdgMarker == <<"E", "d", "g">>
FirefoxMarker == <<"F", "i", "r", "e", "f", "o", "x">>
MobileMarker == <<"M", "o", "b", "i", "l", "e">>

\* ACCEPT_LANGUAGES, lines 36-42
ACCEPT_LANGUAGES ==
    << "en-US,en;q=0.9",
       "en-US,en;q=0.9,fr-FR;q=0.8,fr;q=0.7",
       "en;q=0.9,en-US;q=0.8",
       "en-US,en;q=0.9,es-ES;q=0.8,es;q=0.7",
       "en-US,en;q=0.9,de-DE;q=0.8,de;q=0.7" >>

\* sub in s, for two str
Contains(s, sub) ==
    \E i \in 0..(Len(s) - Len(sub)) : SubSeq(s, i + 1, i + Len(sub)) = sub

\* _extract_platform_from_ua(ua)
ExtractPlatformFromUa(ua) ==
    IF Contains(ua, WindowsMarker) THEN "\"Windows\""
    ELSE IF Contains(ua, MacintoshMarker) \/ Contains(ua, IPhoneMarker)
            \/ Contains(ua, IPadMarker)
    THEN "\"macOS\""
    ELSE "\"Linux\""

\* _generate_sec_ch_ua(ua)
GenerateSecChUa(ua) ==
    IF Contains(ua, ChromeMarker) /\ ~Contains(ua, EdgMarker)
    THEN "\"Not_A Brand\";v=\"8\", \"Chromium\";v=\"122\", \"Google Chrome\";v=\"122\""
    ELSE IF Contains(ua, EdgMarker)
    THEN "\"Not_A Brand\";v=\"8\", \"Chromium\";v=\"122\", \"Microsoft Edge\";v=\"122\""
    ELSE IF Contains(ua, FirefoxMarker) THEN "\"\";v=\"122\""
    ELSE "\"Not_A Brand\";v=\"8\""

\* "?0" if "Mobile" not in ua else "?1"
MobileFlag(ua) == IF ~Contains(ua, MobileMarker) THEN "?0" ELSE "?1"

\* what get_headers derives from each user-agent of the pool, computed once
Derived ==
    [i \in 1..Len(USER_AGENTS) |->
        [platform |-> ExtractPlatformFromUa(USER_AGENTS[i]),
         sec_ch_ua |-> GenerateSecChUa(USER_AGENTS[i]),
         mobile |-> MobileFlag(USER_AGENTS[i])]]

\* (mutant: any user-agent of the pool, the last one included)
UaChoices_Repeating(pool, last) == 1..Len(pool)
\* _get_random_ua: the positions random.choice may end on, i.e. those whose
\* user-agent is not last_ua, unless the pool has one entry only
UaChoices(pool, last) ==
    IF Len(pool) > 1 THEN { i \in 1..Len(pool) : <<pool[i]>> # last } ELSE 1..Len(pool)

\* f"v{random.randint(1, 10)}.{random.randint(0, 99)}"
ClientVersion(major, minor) == <<"v", major, ".", minor>>

\* the dict of lines 128-150, for the user-agent at position i of the pool and
\* the values drawn at random
BuildHeaders(i, language, dnt, gpc, version, memory, dpr) ==
    ("User-Agent" :> USER_AGENTS[i])
    @@ ("Accept" :> "text/html,application/xhtml+xml,application/xml;q=0.9,image/avif,image/webp,image/apng,*/*;q=0.8,application/signed-exchange;v=b3;q=0.7")
    @@ ("Accept-Language" :> language)
    @@ ("Accept-Encoding" :> "gzip, deflate, br")
    @@ ("Cache-Control" :> "no-cache")
    @@ ("Pragma" :> "no-cache")
    @@ ("Sec-Ch-Ua" :> Derived[i].sec_ch_ua)
    @@ ("Sec-Ch-Ua-Mobile" :> Derived[i].mobile)
    @@ ("Sec-Ch-Ua-Platform" :> Derived[i].platform)
    @@ ("Sec-Fetch-Dest" :> "document")
    @@ ("Sec-Fetch-Mode" :> "navigate")
    @@ ("Sec-Fetch-Site" :> "none")
    @@ ("Sec-Fetch-User" :> "?1")
    @@ ("Upgrade-Insecure-Requests" :> "1")
    @@ ("DNT" :> dnt)
    @@ ("Sec-Gpc" :> gpc)
    @@ ("X-Client-Version" :> version)
    @@ ("X-Device-Memory" :> memory)
    @@ ("X-Dpr" :> dpr)

\* (mutant: the generated values win over the caller's)
DictUpdate_KeepOwn(d, other) ==
    [x \in (DOMAIN d) \cup (DOMAIN other) |-> IF x \in DOMAIN d THEN d[x] ELSE other[x]]
\* d.update(other)
DictUpdate(d, other) ==
    [x \in (DOMAIN d) \cup (DOMAIN other) |-> IF x \in DOMAIN other THEN other[x] ELSE d[x]]

\* the truth value of an optional dict: None and {} are false
Given(opt) == opt # <<>> /\ DOMAIN opt[1] # {}

\* lines 152-156: headers.update(base_headers) if base_headers
MergeHeaders(headers, opt) == IF Given(opt) THEN DictUpdate(headers, opt[1]) ELSE headers

\* the values random.randint(3, 15) gives in the model
Intervals == {3, 4, 15}
\* the values the random.choice and random.randint calls of lines 131-150 give
\* in the model
Languages == {ACCEPT_LANGUAGES[1], ACCEPT_LANGUAGES[5]}
DntChoices == {"1"}
GpcChoices == {"null"}
VersionChoices == {ClientVersion(10, 99)}
MemoryChoices == {"8"}
DprChoices == {"1.5"}

\* the base_headers callers pass: None, {}, their own user-agent (the iPhone
\* one), their own platform hint, and headers get_headers does not generate
IPhoneUa == USER_AGENTS[9]
OverrideInputs ==
    { <<>>,
      <<EmptyDict>>,
      <<("User-Agent" :> IPhoneUa)>>,
      <<("Sec-Ch-Ua-Platform" :> "\"Windows\"")>>,
      <<("Accept" :> "*/*") @@ ("X-Requested-With" :> "XMLHttpRequest")>> }

\* this many calls of get_headers are made in all
MaxRequests == 3

rotator_frame == <<base_delay, max_delay, urls, endpoint_delays, endpoint_failures,
                   endpoint_last_request, clock, outcome, logged, thread_vars,
                   cache_vars, hashed, caller_vars>>

\* lines 119-120: the interval after the call, drawn again when the count is a
\* multiple of it
Rerolled(count, interval) == IF count % interval = 0 THEN Intervals ELSE {interval}

\* get_headers(base_headers), with the values its random calls give: interval
\* for the rotation interval after the call and i for the position
\* _get_random_ua ends on
GetHeadersWith(opt, interval, i, language, dnt, gpc, version, memory, dpr) ==
    /\ request_count' = request_count + 1
    /\ interval \in Rerolled(request_count', ua_change_interval)
    /\ ua_change_interval' = interval
    /\ i \in UaChoices(USER_AGENTS, last_ua)
    /\ last_ua' = <<USER_AGENTS[i]>>
    /\ returned' =
          <<MergeHeaders(BuildHeaders(i, language, dnt, gpc, version, memory, dpr), opt)>>
    /\ base_headers' = opt
    /\ UNCHANGED rotator_frame

GetHeaders(opt) ==
    \E interval \in Rerolled(request_count + 1, ua_change_interval),
       i \in 1..Len(USER_AGENTS), language \in Languages,
       dnt \in DntChoices, gpc \in GpcChoices, version \in VersionChoices,
       memory \in MemoryChoices, dpr \in DprChoices :
        GetHeadersWith(opt, interval, i, language, dnt, gpc, version, memory, dpr)

\* the rotator after __init__, with each value random.randint(3, 15) gives
InitRotator ==
    \E interval \in Intervals :
        Built(DefaultBaseDelay, NarrowMaxDelay, {"e1"}, interval)

Generate == \E opt \in OverrideInputs : request_count < MaxRequests /\ GetHeaders(opt)

NextRotator ==
    \/ Generate

SpecRotator == InitRotator /\ [][NextRotator]_vars

----------------------------------------------------------------------------
(* rate_limited(func): the wrapper, run by one caller around a function whose
   outcome is an input *)

\* how the wrapper finds the endpoint key: a url keyword argument, else the
\* second positional argument, else "unknown"
ExtractUrl(args, kwargs) ==
    IF "url" \in DOMAIN kwargs /\ kwargs["url"] # "" THEN kwargs["url"]
    ELSE IF Len(args) > 1 THEN args[2] ELSE "unknown"

\* the arguments of the model: url by keyword, url by position, no url
CallInputs ==
    { [args |-> <<"self">>, kwargs |-> ("url" :> "e1")],
      [args |-> <<"self", "e1">>, kwargs |-> EmptyDict],
      [args |-> <<"self">>, kwargs |-> EmptyDict] }

\* the response headers of the model
ResponseHeaders ==
    { EmptyDict,
      Directive(<<"1">>, <<>>),
      Directive(<<"1", "2">>, <<>>),
      Directive(<<"s", "o", "o", "n">>, <<>>),
      MkHeaders(<<>>, << <<"l", "o", "w">> >>) }
\* what func does: it returns a response with headers, or a value that has no
\* headers attribute, or it raises
FuncOutcomes ==
    { <<"returns", [headers |-> <<hd>>]>> : hd \in ResponseHeaders }
    \cup { <<"returns", [headers |-> <<>>]>>,
           <<"raises", "ConnectionError">>,
           <<"raises", "KeyboardInterrupt">> }

\* the exceptions that `except Exception` catches
IsException(error) == error \in {"ConnectionError", "ValueError"}

\* this many calls are made through the wrapper
MaxWrapped == 3

wrapper_frame == <<thread_vars, cache_vars, client_vars, reports>>

\* (mutant: the wrapper goes on as if func had returned)
AfterFunc_Swallowed(out) ==
    IF out[1] = "returns" /\ out[2].headers # <<>> THEN "headers" ELSE "success"
\* lines 142-151: where control goes after func(*args, **kwargs)
AfterFunc(out) ==
    IF out[1] = "returns"
    THEN IF out[2].headers # <<>> THEN "headers" ELSE "success"
    ELSE IF IsException(out[2]) THEN "failure" ELSE "propagate"

\* lines 134-136: wrapper(*args, **kwargs)
WrapperCall(in) ==
    /\ call.stage = "none"
    /\ call.n < MaxWrapped
    /\ call' = [stage |-> "wait", url |-> ExtractUrl(in.args, in.kwargs), func |-> <<>>,
                done |-> <<>>, caught |-> <<>>, ended |-> <<>>, n |-> call.n + 1]
    /\ UNCHANGED <<base_delay, max_delay, urls, endpoint_delays, endpoint_failures,
                   endpoint_last_request, clock, outcome, logged, wrapper_frame>>

\* line 139: _rate_limiter.wait_for_endpoint(url)
WrapperWait(lag) ==
    /\ call.stage = "wait"
    /\ WaitForEndpoint(call.url, lag)
    /\ call' = [call EXCEPT !.stage = "func", !.done = Append(@, "wait_for_endpoint")]
    /\ UNCHANGED reports

\* line 142: result = func(*args, **kwargs)
WrapperFunc(out) ==
    /\ call.stage = "func"
    /\ call' = [call EXCEPT !.stage = IF AfterFunc(out) = "propagate" THEN "none"
                                       ELSE AfterFunc(out),
                            !.func = out,
                            !.done = Append(@, "func"),
                            !.caught = IF AfterFunc(out) = "failure" THEN <<out[2]>>
                                       ELSE <<>>,
                            !.ended = IF AfterFunc(out) = "propagate"
                                      THEN <<"raised", out[2]>> ELSE <<>>]
    /\ UNCHANGED <<base_delay, max_delay, urls, endpoint_delays, endpoint_failures,
                   endpoint_last_request, clock, outcome, logged, wrapper_frame>>

\* lines 145-146: _rate_limiter.update_from_headers(url, result.headers); the
\* call is inside the try block, so a ValueError of it is caught at line 150
WrapperHeaders ==
    /\ call.stage = "headers"
    /\ UpdateFromHeaders(call.url, call.func[2].headers[1])
    /\ call' = [call EXCEPT !.stage = IF outcome' = "ValueError" THEN "failure"
                                       ELSE "success",
                            !.done = Append(@, "update_from_headers"),
                            !.caught = IF outcome' = "ValueError" THEN <<"ValueError">>
                                       ELSE <<>>]
    /\ UNCHANGED reports

\* lines 148-149: _rate_limiter.record_success(url); return result
WrapperSuccess ==
    /\ call.stage = "success"
    /\ RecordSuccess(call.url)
    /\ call' = [call EXCEPT !.stage = "none",
                            !.done = Append(@, "record_success"),
                            !.ended = <<"returned", call.func[2]>>]
    /\ UNCHANGED reports

\* lines 150-152: _rate_limiter.record_failure(url); raise
WrapperFailure ==
    /\ call.stage = "failure"
    /\ RecordFailure(call.url)
    /\ call' = [call EXCEPT !.stage = "none",
                            !.done = Append(@, "record_failure"),
                            !.ended = <<"raised", call.caught[1]>>]
    /\ UNCHANGED reports

InitWrapper == Built(DefaultBaseDelay, NarrowMaxDelay, {"e1", "unknown"}, MinInterval)

Enter == \E in \in CallInputs : WrapperCall(in)
Admit == \E lag \in Lags : WrapperWait(lag)
Dispatch == \E out \in FuncOutcomes : WrapperFunc(out)
Observe == WrapperHeaders
Succeed == WrapperSuccess
Fail == WrapperFailure

NextWrapper ==
    \/ Enter
    \/ Admit
    \/ Dispatch
    \/ Observe
    \/ Succeed
    \/ Fail

SpecWrapper == InitWrapper /\ [][NextWrapper]_vars

----------------------------------------------------------------------------
(* get_request_hash(url, payload, headers).  The url and the payload are
   sequences of one-character strings, so that the f-string is computed. *)

\* f"{url}:{payload}"
CacheKey(url, payload) == url \o <<":">> \o payload
\* hashlib.md5(data).hexdigest(), taken to be free of collisions: the digest
\* stands for the bytes it was made from
Md5HexDigest(data) == <<"md5", data>>
\* the UTF-8 bytes of the characters of the model
Utf8 == ("a" :> 97) @@ ("b" :> 98) @@ ("c" :> 99) @@ (":" :> 58) @@ ("/" :> 47)
\* str.encode()
Encode(s) == [i \in 1..Len(s) |-> Utf8[s[i]]]

GetRequestHash(url, payload, headers) == Md5HexDigest(Encode(CacheKey(url, payload)))

\* the requests of the model
HashUrls == { <<"a">>, <<"a", ":", "b">>, <<"a", "/", "b">> }
HashPayloads == { <<>>, <<"c">>, <<"b", ":", "c">> }
HashHeaders == { EmptyDict, ("Accept" :> "*/*") }

\* the caller computes the hash of a request; the model keeps the last two
HashRequest(url, payload, headers) ==
    /\ hashed' = <<[url |-> url, payload |-> payload, headers |-> headers,
                    value |-> GetRequestHash(url, payload, headers)]>>
                 \o SubSeq(hashed, 1, Min(Len(hashed), 1))
    /\ UNCHANGED <<base_delay, max_delay, urls, endpoint_delays, endpoint_failures,
                   endpoint_last_request, clock, outcome, logged, thread_vars,
                   cache_vars, rotator_vars, returned, caller_vars>>

Fingerprint ==
    \E url \in HashUrls, payload \in HashPayloads, headers \in HashHeaders :
        HashRequest(url, payload, headers)

NextHash ==
    \/ Fingerprint

SpecHash == Init /\ [][NextHash]_vars

----------------------------------------------------------------------------
(* What the header values of the model say, read off by hand *)

\* the retry-after values that are a number of seconds, each with that number
RetrySeconds == { <<<<"0">>, 0>>, <<<<"1">>, 1>>, <<<<"1", "2">>, 12>>, <<<<"-", "3">>, 0 - 3>> }
\* the x-rate-limit-remaining values that are a number below 5
LowQuotaValues == { <<"4">> }
\* the values that are no number: "", an HTTP date, a word
MalformedValues == { <<>>, <<"s", "o", "o", "n">>, <<"l", "o", "w">> }
\* a header that is missing or unparseable
Unusable(opt) == opt = <<>> \/ opt[1] \in MalformedValues

----------------------------------------------------------------------------
(* Claims *)

\* C1: in every reachable state, baseDelay <= currentDelay(k) <= maxDelay for
\* every endpoint key k.
C1_DelayWithinBounds ==
    \A k \in urls : base_delay <= CurrentDelay(k) /\ CurrentDelay(k) <= max_delay

\* C2: for one caller, wait(k) returns at a time that is at least
\* currentDelay(k) after the lastRequestTime(k) it found, sets lastRequestTime(k)
\* to the time of its return, and a first wait on an endpoint never waited on
\* before returns without sleeping.
C2_WaitHonoursDelay ==
    [][\A k \in urls, lag \in Lags :
          WaitForEndpoint(k, lag)
          => /\ clock' - LastRequest(k) >= CurrentDelay(k)
             /\ LastRequest(k)' = clock'
             /\ (k \notin DOMAIN endpoint_last_request
                   => logged' = <<>> /\ clock' - clock = lag)]_vars

\* C2 witness: a wait has just slept for part of a server-directed delay of 1 s
\* and stamped the time of its return.
C2_Witness ==
    /\ CurrentDelay("e1") = 1000
    /\ \E ms \in 1..999 : logged = <<WaitingRecord("e1", ms)>>
    /\ LastRequest("e1") = clock

QuotaOptions == {<<>>} \cup { <<v>> : v \in RemainingValues }
\* the step logged the directive of e: true of every call with that retry-after,
\* and cheap to tell, so it is asked before the call itself is evaluated
LoggedDirective(k, e) == logged' # <<>> /\ logged'[1] = RateLimitedRecord(k, e[2])

\* C3 as stated: after updateFromServerHeaders(k, headers) with a retry-after of
\* s seconds, currentDelay(k) = min(s, maxDelay), whatever else the headers hold.
C3_RetryAfterAlone ==
    [][\A k \in urls, e \in RetrySeconds, q \in QuotaOptions :
          (LoggedDirective(k, e) /\ UpdateFromHeaders(k, Directive(e[1], q)))
          => CurrentDelay(k)' = Min(e[2] * 1000, max_delay)]_vars

\* C3 as amended: after updateFromServerHeaders(k, headers) with a retry-after of
\* s seconds, currentDelay(k) = min(s, maxDelay) whatever its prior value, unless
\* the headers also carry a remaining quota below 5: then it is
\* min(1.5 * min(s, maxDelay), maxDelay).
C3_RetryAfterThenQuota ==
    [][\A k \in urls, e \in RetrySeconds, q \in QuotaOptions :
          (LoggedDirective(k, e) /\ UpdateFromHeaders(k, Directive(e[1], q)))
          => LET directed == Min(e[2] * 1000, max_delay)
             IN  CurrentDelay(k)' =
                    IF q # <<>> /\ q[1] \in LowQuotaValues
                    THEN Min((directed * 3) \div 2, max_delay)
                    ELSE directed]_vars

\* C3 witness: after three failures, a call with retry-after 1 and a low quota
\* has just set the delay to 1.5 s.
C3_Witness ==
    /\ Failures("e1") = 3
    /\ logged = <<RateLimitedRecord("e1", 1), ApproachingRecord("e1")>>
    /\ CurrentDelay("e1") = 1500

\* C4: updateFromServerHeaders(k, headers) whose retry-after and remaining-quota
\* headers are each missing or unparseable returns normally and leaves the
\* endpoint's delay, last request time and failure count as they were.
C4_MalformedHeadersIgnored ==
    [][\A k \in urls, headers \in HeaderInputs :
          ( /\ Unusable(HeaderGet(headers, "retry-after"))
            /\ Unusable(HeaderGet(headers, "x-rate-limit-remaining"))
            /\ UpdateFromHeaders(k, headers) )
          => /\ outcome' = "returned"
             /\ CurrentDelay(k)' = CurrentDelay(k)
             /\ LastRequest(k)' = LastRequest(k)
             /\ Failures(k)' = Failures(k)]_vars

\* C5: recordFailure(k) adds exactly 1 to consecutiveFailures(k) and never
\* lowers currentDelay(k): a first failure leaves it, a later one makes it
\* min(1.3 * currentDelay(k), maxDelay).
C5_FailureGrowsDelay ==
    [][\A k \in urls :
          RecordFailure(k)
          => /\ Failures(k)' = Failures(k) + 1
             /\ CurrentDelay(k)' >= CurrentDelay(k)
             /\ (Failures(k)' = 1 => CurrentDelay(k)' = CurrentDelay(k))
             /\ (Failures(k)' >= 2
                   => CurrentDelay(k)' = Min((CurrentDelay(k) * 13) \div 10, max_delay))]_vars

\* C6: from any reachable state, recordSuccess(k) leaves consecutiveFailures(k)
\* at 0 and currentDelay(k) at or above baseDelay, and each call either lowers
\* currentDelay(k) or leaves it at exactly baseDelay, where it then stays (so
\* finitely many calls reach baseDelay).
C6_SuccessSettlesAtBase ==
    [][\A k \in urls :
          RecordSuccess(k)
          => /\ Failures(k)' = 0
             /\ CurrentDelay(k)' >= base_delay
             /\ (CurrentDelay(k)' < CurrentDelay(k) \/ CurrentDelay(k)' = base_delay)
             /\ (CurrentDelay(k) = base_delay => CurrentDelay(k)' = base_delay)]_vars

\* C7: a lookup of fingerprint f returns the response of the most recent
\* storeCache(f, r) exactly when that store is less than ttl old at the lookup's
\* reading of the clock; otherwise it returns absent, and f has then no entry
\* left in the cache.  (Checked where the lookup leaves its block with a result.)
C7_LookupReturnsRecentStore ==
    \A t \in Threads :
        (pc[t] = "cc_exit" /\ frame[t].error = "")
        => LET h == frame[t].request_hash
               seen == IF frame[t].cached # <<>> THEN frame[t].now ELSE today
           IN  IF frame[t].result # <<>>
               THEN /\ h \in DOMAIN stored
                    /\ frame[t].result = <<stored[h][2]>>
                    /\ seen - stored[h][1] < 300
               ELSE /\ h \notin DOMAIN request_cache
                    /\ (h \in DOMAIN stored => seen - stored[h][1] >= 300)

\* C7 witness: a lookup is returning the second response stored for h1, 200 s
\* old, after the first had been stored and replaced.
C7_Witness ==
    \E t \in Threads :
        /\ pc[t] = "cc_exit"
        /\ frame[t].request_hash = "h1"
        /\ frame[t].result = <<"r2">>
        /\ frame[t].now - stored["h1"][1] = 200
        /\ stored["h1"][1] > 0

\* the delay that n recordFailure calls, run one after the other on a fresh
\* endpoint, leave behind
RECURSIVE SerialDelay(_)
SerialDelay(n) ==
    IF n <= 1 THEN base_delay ELSE Min((SerialDelay(n - 1) * 13) \div 10, max_delay)

AllIdle == \A t \in Threads : pc[t] = "idle"

\* C8: concurrent calls on one endpoint take effect as if run in some serial
\* order; in particular, once N concurrent recordFailure(k) calls (and no
\* recordSuccess) have returned, consecutiveFailures(k) = N and currentDelay(k)
\* is what N failures in a row produce: no update is lost.
C8_NoLostUpdate ==
    \A k \in urls :
        (AllIdle /\ completed["record_success"] = 0)
        => /\ Failures(k) = completed["record_failure"]
           /\ CurrentDelay(k) = SerialDelay(completed["record_failure"])

\* C9: while any number of recordFailure(k) and recordSuccess(k) calls run in
\* parallel, interleaved read by read and write by write, currentDelay(k) is
\* within [baseDelay, maxDelay] in every intermediate and final state.
C9_RacingDelayWithinBounds ==
    \A k \in DOMAIN endpoint_delays :
        endpoint_delays[k] >= base_delay /\ endpoint_delays[k] <= max_delay

\* C9 witness: a recordFailure is about to write a delay computed from a value
\* that a concurrent recordSuccess has since replaced, while a third call is
\* under way.
C9_Witness ==
    \E t, u \in Threads :
        /\ pc[t] = "rf_write"
        /\ frame[t].current_delay # CurrentDelay("e1")
        /\ pc[u] \in {"rs_read", "rs_write"}
        /\ completed["record_success"] >= 1

\* the lines inside the with blocks
InsideBlock == {"cc_contains", "cc_entry", "cc_expiry", "cc_delete", "cc_exit",
                "uc_store", "uc_exit"}

\* C10: concurrent lookupCache and storeCache calls take effect one at a time:
\* at most one thread is inside a with block, and it holds the lock; the entry
\* a lookup is about to delete is the very entry it found expired (not one a
\* concurrent storeCache has put there since); and whenever no call is inside
\* a block, on whatever path the last one left it, the lock is free.
C10_CacheCallsAtomic ==
    /\ \A t, u \in Threads : (pc[t] \in InsideBlock /\ pc[u] \in InsideBlock) => t = u
    /\ \A t \in Threads : pc[t] \in InsideBlock <=> cache_lock = t
    /\ \A t \in Threads :
          pc[t] = "cc_delete"
          => /\ frame[t].request_hash \in DOMAIN request_cache
             /\ request_cache[frame[t].request_hash] = frame[t].cached
             /\ frame[t].now - frame[t].cached[1] >= 300
    /\ (\A t \in Threads : pc[t] \notin InsideBlock) => cache_lock = "free"

\* C10 witness: a lookup that found the entry of h1 expired is about to delete
\* it while a storeCache for h1 waits for the lock.
C10_Witness ==
    \E t, u \in Threads :
        /\ pc[t] = "cc_delete" /\ frame[t].request_hash = "h1"
        /\ pc[u] = "uc_acquire" /\ frame[u].request_hash = "h1"

\* a step of some operation invoked for endpoint key k
ActsOn(k) ==
    \/ RecordFailure(k)
    \/ RecordSuccess(k)
    \/ \E headers \in KeyHeaders : UpdateFromHeaders(k, headers)
    \/ \E attempt \in KeyAttempts : CalculateBackoff(k, attempt)
    \/ \E t \in Threads : CallWait(t, k)
    \/ \E t \in Threads : frame[t].url = k /\ WaitStep(t)

\* thread t sleeps inside wait(k)
Sleeping(t, k) == pc[t] = "wf_sleep" /\ frame[t].url = k

\* no caller on another key is held up by a caller sleeping inside wait(k): a
\* new wait(k2) can start, a wait(k2) under way can take its next step, one
\* that sleeps has no more than its own delay left and wakes when that time has
\* come, and the other operations on k2 can run
NotHeldUp ==
    \A t \in Threads, k \in urls :
        Sleeping(t, k)
        => \A u \in Threads \ {t}, k2 \in urls \ {k} :
              /\ (u \in Waiters /\ pc[u] = "idle" /\ WaitsMade < MaxWaits)
                    => ENABLED CallWait(u, k2)
              /\ (frame[u].url = k2
                    /\ pc[u] \in {"wf_last", "wf_now", "wf_delay", "wf_check", "wf_stamp"})
                    => ENABLED WaitStep(u)
              /\ Sleeping(u, k2)
                    => /\ frame[u].wake - clock <= frame[u].delay
                       /\ (clock >= frame[u].wake => ENABLED WfSleep(u))
              /\ ENABLED RecordSuccess(k2)
              /\ ENABLED CalculateBackoff(k2, 0)
              /\ Failures(k2) < MaxFailures => ENABLED RecordFailure(k2)
              /\ ENABLED UpdateFromHeaders(k2, Directive(<<"1">>, <<>>))

\* C11: every step of an operation invoked for endpoint key k (wait,
\* recordSuccess, recordFailure, updateFromServerHeaders, computeBackoff) leaves
\* currentDelay, lastRequestTime and consecutiveFailures of every other key as
\* they were, and a caller sleeping inside wait(k) holds up no caller of wait
\* or of another operation on another key.
C11_KeysIndependent ==
    [][/\ NotHeldUp
       /\ \A k \in urls :
             ActsOn(k)
             => \A k2 \in urls \ {k} :
                   /\ CurrentDelay(k2)' = CurrentDelay(k2)
                   /\ LastRequest(k2)' = LastRequest(k2)
                   /\ Failures(k2)' = Failures(k2)]_vars

\* C11 witness: t1 sleeps inside wait("e1"), whose delay the server has set to
\* 1 s, while t2 has passed the check of wait("e2") and is about to stamp its
\* time.
C11_Witness ==
    /\ Sleeping("t1", "e1")
    /\ CurrentDelay("e1") = 1000
    /\ frame["t1"].wake > clock
    /\ pc["t2"] = "wf_stamp" /\ frame["t2"].url = "e2"

\* 2^min(attempt, 5), written out
TwoTo(attempt) == <<1, 2, 4, 8, 16, 32>>[IF attempt < 5 THEN attempt + 1 ELSE 6]
\* the exponential term E of the claim, in ms
Term(k, attempt) == CurrentDelay(k) * TwoTo(attempt)

\* r = min(E + jitter, mx) for some jitter with |jitter| <= 0.1 * E: either the
\* cap was hit, which E + 0.1 * E can do, or r is within 0.1 * E of E
Shaped(E, r, mx) ==
    /\ E >= 0
    /\ \/ r = mx /\ E * 11 >= mx * 10
       \/ r <= mx /\ (r - E) * 10 <= E /\ (E - r) * 10 <= E

\* C12: computeBackoff(k, attempt) returns min(E + jitter, maxDelay) for
\* E = currentDelay(k) * 2^min(attempt, 5) and some jitter of magnitude at most
\* 0.1 * E; the result is at most maxDelay; without the jitter it does not
\* decrease as attempt grows and is the same for all attempts from 5 on; and the
\* call leaves the three values of the endpoint as they were.
C12_BackoffShape ==
    [][\A k \in urls, attempt \in Attempts :
          CalculateBackoff(k, attempt)
          => /\ Shaped(Term(k, attempt), returned'[1], max_delay)
             /\ returned'[1] <= max_delay
             /\ \A a, b \in Attempts :
                   /\ a <= b => Min(Term(k, a), max_delay) <= Min(Term(k, b), max_delay)
                   /\ (a >= 5 /\ b >= 5) => Term(k, a) = Term(k, b)
             /\ CurrentDelay(k)' = CurrentDelay(k)
             /\ LastRequest(k)' = LastRequest(k)
             /\ Failures(k)' = Failures(k)]_vars

\* the platform each user-agent of the pool names, and the one that is mobile
\* (the iPhone), read off the strings by hand
PoolPlatforms ==
    << "\"Windows\"", "\"macOS\"", "\"Linux\"", "\"Windows\"", "\"Windows\"",
       "\"macOS\"", "\"Linux\"", "\"macOS\"", "\"macOS\"", "\"Windows\"" >>
PoolMobile == {9}
\* the position in the pool of a user-agent
PoolIndex(ua) == CHOOSE i \in 1..Len(USER_AGENTS) : USER_AGENTS[i] = ua

\* C13: in every header set get_headers returns, with or without overrides, the
\* Sec-Ch-Ua-Platform and Sec-Ch-Ua-Mobile values are those derived from the
\* User-Agent of that same set.
C13_HintsMatchUserAgent ==
    returned # <<>>
    => LET h == returned[1]
           i == PoolIndex(h["User-Agent"])
       IN  /\ h["Sec-Ch-Ua-Platform"] = PoolPlatforms[i]
           /\ h["Sec-Ch-Ua-Mobile"] = (IF i \in PoolMobile THEN "?1" ELSE "?0")

\* the overrides set the User-Agent
SetsUserAgent(opt) == opt # <<>> /\ "User-Agent" \in DOMAIN opt[1]

GeneratedNames ==
    { "User-Agent", "Accept", "Accept-Language", "Accept-Encoding", "Cache-Control",
      "Pragma", "Sec-Ch-Ua", "Sec-Ch-Ua-Mobile", "Sec-Ch-Ua-Platform",
      "Sec-Fetch-Dest", "Sec-Fetch-Mode", "Sec-Fetch-Site", "Sec-Fetch-User",
      "Upgrade-Insecure-Requests", "DNT", "Sec-Gpc", "X-Client-Version",
      "X-Device-Memory", "X-Dpr" }

\* the sets get_headers can generate when _get_random_ua ends on ua
GeneratedSets(ua) ==
    { BuildHeaders(PoolIndex(ua), language, dnt, gpc, version, memory, dpr) :
        language \in Languages, dnt \in DntChoices, gpc \in GpcChoices,
        version \in VersionChoices, memory \in MemoryChoices, dpr \in DprChoices }

\* C15: the set get_headers returns holds each key of the overrides with the
\* override's value and each generated key that the overrides do not name with
\* its generated value, and nothing else; with overrides that are empty or
\* absent it is the generated set; the overrides are left as they were passed.
C15_OverridesWin ==
    [][\A opt \in OverrideInputs :
          (base_headers' = opt /\ GetHeaders(opt))
          => LET h == returned'[1]
                 over == IF opt = <<>> THEN EmptyDict ELSE opt[1]
             IN  /\ \A n \in DOMAIN over : n \in DOMAIN h /\ h[n] = over[n]
                 /\ DOMAIN h = GeneratedNames \cup DOMAIN over
                 /\ \E g \in GeneratedSets(last_ua'[1]) :
                       /\ \A n \in GeneratedNames \ DOMAIN over : h[n] = g[n]
                       /\ DOMAIN over = {} => h = g
                 /\ base_headers' = opt]_vars

\* C15 witness: a call with overrides for Accept and for a header that is not
\* generated has returned both, next to the generated Accept-Encoding.
C15_Witness ==
    /\ returned # <<>>
    /\ base_headers # <<>>
    /\ DOMAIN base_headers[1] = {"Accept", "X-Requested-With"}
    /\ returned[1]["Accept"] = "*/*"
    /\ returned[1]["X-Requested-With"] = "XMLHttpRequest"
    /\ returned[1]["Accept-Encoding"] = "gzip, deflate, br"

\* how many times the wrapper's call under way, or its last one, made a call
Times(name) == Cardinality({ i \in DOMAIN call.done : call.done[i] = name })
\* the call through the wrapper is over
Ended == call.stage = "none" /\ call.ended # <<>>
\* the errors func raises in the model (KeyboardInterrupt is no error: it is
\* not an Exception)
FuncErrors == {"ConnectionError"}

\* C16: in every call through the wrapper, wait(k) has returned before func is
\* dispatched; and when func raised an error, the call ends with recordFailure(k)
\* called exactly once, recordSuccess(k) not called, and that same error raised
\* to the caller.
C16_FailureReported ==
    /\ \A i \in DOMAIN call.done :
          /\ i = 1 => call.done[i] = "wait_for_endpoint"
          /\ call.done[i] = "func" => i = 2
    /\ (Ended /\ call.func[1] = "raises" /\ call.func[2] \in FuncErrors)
          => /\ Times("record_failure") = 1
             /\ Times("record_success") = 0
             /\ call.ended = <<"raised", call.func[2]>>

\* C16 witness: the second call for e1 in a row whose func raised
\* ConnectionError is over: it waited, dispatched, recorded the failure, and
\* raised ConnectionError.
C16_Witness ==
    /\ Ended
    /\ call.url = "e1"
    /\ call.done = <<"wait_for_endpoint", "func", "record_failure">>
    /\ call.ended = <<"raised", "ConnectionError">>
    /\ Failures("e1") = 2

\* C18: when func returned normally, the wrapper returns that result, has called
\* recordSuccess(k) and not recordFailure(k), and raises nothing, whatever the
\* response headers hold.
C18_ReturnsResult ==
    (Ended /\ call.func[1] = "returns")
    => /\ call.ended = <<"returned", call.func[2]>>
       /\ Times("record_success") = 1
       /\ Times("record_failure") = 0

\* C20: when the wrapper returns a response whose headers carry retry-after = s
\* (and no remaining quota), currentDelay(k) = min(s, maxDelay) at that moment.
C20_DirectiveKept ==
    \A e \in RetrySeconds :
        (Ended /\ call.ended = <<"returned", [headers |-> <<Directive(e[1], <<>>)>>]>>)
        => CurrentDelay(call.url) = Min(e[2] * 1000, max_delay)

\* C17: the fingerprint is a function of the endpoint key and the payload
\* alone, and two requests have the same fingerprint exactly when they have the
\* same endpoint key and the same payload.
C17_FingerprintOfRequest ==
    \A i, j \in DOMAIN hashed :
        hashed[i].value = hashed[j].value
        <=> (hashed[i].url = hashed[j].url /\ hashed[i].payload = hashed[j].payload)

\* C19: a caller of wait(k) is admitted (stamps lastRequestTime(k) on its
\* return) no sooner than currentDelay(k) after the admission before it, also
\* when the callers run concurrently.
C19_AdmissionsSpaced ==
    [][\A t \in Threads :
          (WfStamp(t) /\ LastRequest(frame[t].url) > 0)
          => LastRequest(frame[t].url)' - LastRequest(frame[t].url)
                >= CurrentDelay(frame[t].url)]_vars

====
